---- MODULE Spec2Model ----
(***************************************************************************)
(* A model of the flow-cli transaction core: the remote (gRPC) gateway's   *)
(* prepare/sign/submit/poll flow, the embedded (emulator) gateway with its *)
(* snapshot store, and the role resolution of the `transactions send`      *)
(* command.                                                                *)
(*                                                                         *)
(* Three specifications share the module; each one moves its own group of  *)
(* variables and leaves the others at their initial values:                *)
(*   SpecRemote    GrpcGateway      (src/pkg/flowcli/gateway/grpc.go)       *)
(*   SpecEmbedded  EmulatorGateway  (src/unnamed/part_001, package gateway) *)
(*   SpecRoles     send             (src/internal/transactions/send.go)     *)
(***************************************************************************)
EXTENDS Integers, Sequences, FiniteSets, TLC

(***************************************************************************)
(* Bounds of the model.                                                    *)
(***************************************************************************)
\* GetTransactionResult recurses without limit; the model stops after this
\* many result RPCs in one call.
MaxPolls == 3
\* An account record fetched from the network holds 1..MaxKeys keys.
MaxKeys == 2

(***************************************************************************)
(* Program constants.                                                      *)
(***************************************************************************)
defaultGasLimit == 1000

(***************************************************************************)
(* Value domains of the inputs.                                            *)
(***************************************************************************)
Addresses == {"0x01", "0x02"}
BlockIDs == {"blockA", "blockB"}
\* Sequence numbers a network key can carry; the key at position i of a record
\* carries index i, as on the network.
SeqNums == {5, 7}
\* flow.TransactionStatus
Statuses == {"Unknown", "Pending", "Finalized", "Executed", "Sealed", "Expired"}
\* Gas limits the caller may have put on the envelope before preparation
\* (0: not set).
GasInputs == {0, 500}

\* A project account as the transaction sees it: Address() and
\* DefaultKey().Index().
ProjectAccounts == [address : Addresses, keyIndex : 0 .. (MaxKeys - 1)]
\* The nil *project.Account.
NilAccount == [address |-> "nil", keyIndex |-> 0]

\* flow.AccountKey: Index and SequenceNumber.
AccountKey(i, s) == [Index |-> i, SequenceNumber |-> s]
\* flow.Account.Keys as GetAccountAtLatestBlock can return it (0-based in Go:
\* position p of the sequence is Keys[p-1]).
KeyListsOfLen(n) == { [p \in 1 .. n |-> AccountKey(p - 1, f[p])] : f \in [1 .. n -> SeqNums] }
KeyLists == UNION { KeyListsOfLen(n) : n \in 1 .. MaxKeys }

NoKey == [address |-> "unset", index |-> -1, seq |-> -1]

VARIABLES
    \* ---- GrpcGateway: one send-then-wait flow ----
    pc,               \* position of the caller inside the gateway
    tx,               \* the *project.Transaction handed to SendTransaction
    fetched,          \* Keys of the proposer record returned by GetAccount
    waitSeal,         \* argument of the GetTransactionResult call
    rpcLog,           \* steps taken for this transaction, oldest first
    ret,              \* what the last gateway call returned
    callerCancelled,  \* the caller has given up waiting for the result
    sealed,           \* ID of the header returned by GetLatestBlockHeader
    observed          \* outcome of the latest result RPC: a status or "error"

remoteVars == <<pc, tx, fetched, waitSeal, rpcLog, ret, callerCancelled, sealed, observed>>

VARIABLES
    \* ---- EmulatorGateway ----
    heap,             \* the emulator objects in memory: handle -> ledger
    backendEmu,       \* handle of the emulator the backend runs on
    snapshots,        \* g.snapshots: name -> handle
    embRet,           \* what the last embedded gateway call returned
    capturedAt,       \* history: name -> ledger when CreateSnapshot(name) ran
    timesCreated,     \* history: name -> CreateSnapshot(name) calls, 2 for "twice or more"
    listed            \* the slice the latest ListSnapshots returned

embVars == <<heap, backendEmu, snapshots, embRet, capturedAt, timesCreated, listed>>

VARIABLES
    \* ---- transactions send ----
    sendFlags,        \* the flags of this command
    buildFlags,       \* the flags of the build command (same package)
    sendOut           \* what send returned and whether it sent

roleVars == <<sendFlags, buildFlags, sendOut>>

VARIABLES
    \* ---- signing pipeline ----
    signRoles,          \* proposer, payer and authorizers of the staged envelope
    payloadSignatures,  \* keys that signed the payload, in insertion order
    envelopeSignatures, \* keys that signed the envelope, in insertion order
    signPc              \* "payload", "complete" or "failed"

signVars == <<signRoles, payloadSignatures, envelopeSignatures, signPc>>

VARIABLES
    \* ---- EmulatorGateway.GetEvents ----
    evChain,            \* the emulator's blocks: position h + 1 holds height h
    evArgs,             \* startHeight and endHeight of the call
    evHeight,           \* the loop counter height
    evEvents,           \* the local slice events
    evRet               \* "none", "ok", "error" or "panic"

evVars == <<evChain, evArgs, evHeight, evEvents, evRet>>

VARIABLES
    \* ---- State: accounts of the configuration ----
    stAccounts,         \* p.accounts
    stLast              \* the latest call on the state and what it returned

stateVars == <<stAccounts, stLast>>

VARIABLES
    \* ---- State: contract deployments ----
    ccDeployments,      \* p.conf.Deployments.GetByNetwork(network)
    ccResult            \* what ContractConflictExists(network) returned

contractVars == <<ccDeployments, ccResult>>

VARIABLES
    \* ---- GrpcGateway.GetTransactionResult against a network ----
    netStatus,          \* the status the access node holds for the transaction
    pollPc,             \* "idle", "GetTransactionResult", "Sleep" or "returned"
    pollWaitSeal,       \* argument waitSeal of the call
    pollRet,            \* what the call returned
    pollSeen            \* the statuses the attempts of the call observed

pollVars == <<netStatus, pollPc, pollWaitSeal, pollRet, pollSeen>>

VARIABLES
    \* ---- legacy transactions send command ----
    legacyFlags,        \* the package variable sendFlags of the legacy command
    legacyArgs,         \* the positional arguments of the command
    legacyOut           \* what Run returned and what it passed to Transactions.Send

legacyVars == <<legacyFlags, legacyArgs, legacyOut>>

vars == <<remoteVars, embVars, roleVars, signVars, evVars, stateVars, contractVars, pollVars, legacyVars>>

\* What the actions of one component leave alone.
notRemote == <<embVars, roleVars, signVars, evVars, stateVars, contractVars, pollVars, legacyVars>>
notEmbedded == <<remoteVars, roleVars, signVars, evVars, stateVars, contractVars, pollVars, legacyVars>>
notRoles == <<remoteVars, embVars, signVars, evVars, stateVars, contractVars, pollVars, legacyVars>>
notSign == <<remoteVars, embVars, roleVars, evVars, stateVars, contractVars, pollVars, legacyVars>>
notEvents == <<remoteVars, embVars, roleVars, signVars, stateVars, contractVars, pollVars, legacyVars>>
notState == <<remoteVars, embVars, roleVars, signVars, evVars, contractVars, pollVars, legacyVars>>
notContracts == <<remoteVars, embVars, roleVars, signVars, evVars, stateVars, pollVars, legacyVars>>
notPoll == <<remoteVars, embVars, roleVars, signVars, evVars, stateVars, contractVars, legacyVars>>
notLegacy == <<remoteVars, embVars, roleVars, signVars, evVars, stateVars, contractVars, pollVars>>

(***************************************************************************)
(* GrpcGateway                                                             *)
(***************************************************************************)
NoRet == [call |-> "none", kind |-> "none", stage |-> "none", status |-> "none"]
ErrRet(call, stage) == [call |-> call, kind |-> "error", stage |-> stage, status |-> "none"]
PanicRet(call, stage) == [call |-> call, kind |-> "panic", stage |-> stage, status |-> "none"]
OkRet(call, status) == [call |-> call, kind |-> "ok", stage |-> "none", status |-> status]

NewTransaction(signer, proposer, gas) ==
    [signer |-> signer, proposer |-> proposer, referenceBlockID |-> "unset",
     gasLimit |-> gas, proposalKey |-> NoKey, signed |-> FALSE]

\* NewGrpcGateway: the context every RPC of the gateway runs under.
ctx == "Background"

\* context.Context.Done: a Background context is never done; a context derived
\* from the caller would be done once the caller cancels.
CtxDone(c) == IF c = "Background" THEN FALSE ELSE callerCancelled

\* PrepareTransactionPayload, line 71-74: default proposer is signer.
proposalAddress(t) ==
    IF t.proposer # NilAccount THEN t.proposer.address ELSE t.signer.address

\* NewGrpcGateway, and a caller that has not called yet.
RemoteInit ==
    /\ pc = "idle"
    /\ tx = NewTransaction(NilAccount, NilAccount, 0)
    /\ fetched = << >>
    /\ waitSeal = FALSE
    /\ rpcLog = << >>
    /\ ret = NoRet
    /\ callerCancelled = FALSE
    /\ sealed = "none"
    /\ observed = "none"
    /\ heap = << << >> >>
    /\ backendEmu = 1
    /\ snapshots = << >>
    /\ embRet = [call |-> "none", arg |-> "none", kind |-> "none", status |-> "none", waitSeal |-> FALSE]
    /\ capturedAt = << >>
    /\ timesCreated = << >>
    /\ listed = << >>
    /\ sendFlags = [Signer |-> "", Proposer |-> "", Payer |-> "", Autorizer |-> << >>]
    /\ buildFlags = [Payer |-> ""]
    /\ sendOut = [called |-> FALSE, stage |-> "none", sent |-> FALSE,
                  roles |-> [err |-> "none", role |-> "none", name |-> "none",
                             proposer |-> "nil", payer |-> "nil", authorizers |-> << >>]]
    /\ signRoles = [proposer |-> "nil", payer |-> "nil", authorizers |-> << >>]
    /\ payloadSignatures = << >>
    /\ envelopeSignatures = << >>
    /\ signPc = "idle"
    /\ evChain = << >>
    /\ evArgs = [start |-> 0, end |-> 0]
    /\ evHeight = 0
    /\ evEvents = << >>
    /\ evRet = "idle"
    /\ stAccounts = << >>
    /\ stLast = [op |-> "none", name |-> "none", address |-> "none", err |-> "none"]
    /\ ccDeployments = << >>
    /\ ccResult = [done |-> FALSE, value |-> FALSE]
    /\ netStatus = "Unknown"
    /\ pollPc = "idle"
    /\ pollWaitSeal = FALSE
    /\ pollRet = [kind |-> "none", status |-> "none"]
    /\ pollSeen = {}
    /\ legacyFlags = [ArgsJSON |-> "", Arg |-> << >>, Signer |-> "", Code |-> "", Results |-> FALSE, Args |-> "", Payload |-> ""]
    /\ legacyArgs = << >>
    /\ legacyOut = [called |-> FALSE, err |-> "none", sendCalled |-> FALSE, filename |-> "none", payload |-> "none", signer |-> "none", arg |-> << >>, argsJSON |-> "none"]

\* The caller hands a built transaction to SendTransaction.
CallSendTransaction ==
    /\ pc = "idle"
    /\ \E signer \in ProjectAccounts, proposer \in ProjectAccounts \cup {NilAccount},
          gas \in GasInputs :
          tx' = NewTransaction(signer, proposer, gas)
    /\ pc' = "GetAccount"
    /\ UNCHANGED <<fetched, waitSeal, rpcLog, ret, callerCancelled>>
    /\ UNCHANGED <<sealed, observed>>
    /\ UNCHANGED notRemote

\* PrepareTransactionPayload, line 76-81: fetch the proposer record, then index
\* its keys.
GetAccountStep ==
    /\ pc = "GetAccount"
    /\ rpcLog' = Append(rpcLog, "GetAccount")
    /\ \/ /\ ret' = ErrRet("SendTransaction", "GetAccount")
          /\ pc' = "returned"
          /\ UNCHANGED fetched
       \/ \E keys \in KeyLists :
             IF tx.signer.keyIndex >= Len(keys)
             THEN \* proposer.Keys[i] with i out of range: runtime panic
                  /\ ret' = PanicRet("SendTransaction", "GetAccount")
                  /\ pc' = "returned"
                  /\ UNCHANGED fetched
             ELSE /\ fetched' = keys
                  /\ pc' = "GetLatestBlockHeader"
                  /\ UNCHANGED ret
    /\ UNCHANGED <<tx, waitSeal, callerCancelled>>
    /\ UNCHANGED <<sealed, observed>>
    /\ UNCHANGED notRemote

\* PrepareTransactionPayload, line 81: the key the proposal key is built from.
proposerKey(t, keys) == keys[t.signer.keyIndex + 1]

\* PrepareTransactionPayload, line 88-91.
SetPayload(t, sealedID, key) ==
    [t EXCEPT !.referenceBlockID = sealedID,
              !.gasLimit = defaultGasLimit,
              !.proposalKey = [address |-> proposalAddress(t),
                               index |-> key.Index,
                               seq |-> key.SequenceNumber]]

\* A PrepareTransactionPayload that fills the payload before it looks at the
\* error of the sealed-header fetch.
GetLatestBlockHeaderStepSettingFirst ==
    /\ pc = "GetLatestBlockHeader"
    /\ rpcLog' = Append(rpcLog, "GetLatestBlockHeader")
    /\ \/ /\ ret' = ErrRet("SendTransaction", "GetLatestBlockHeader")
          /\ pc' = "returned"
          /\ tx' = SetPayload(tx, "unset", proposerKey(tx, fetched))
          /\ UNCHANGED sealed
       \/ \E sealedID \in BlockIDs :
             /\ sealed' = sealedID
             /\ tx' = SetPayload(tx, sealedID, proposerKey(tx, fetched))
             /\ pc' = "Sign"
             /\ UNCHANGED ret
    /\ UNCHANGED <<fetched, waitSeal, callerCancelled, observed>>
    /\ UNCHANGED notRemote

\* PrepareTransactionPayload, line 83-93: fetch the latest sealed header and
\* fill the payload.
GetLatestBlockHeaderStep ==
    /\ pc = "GetLatestBlockHeader"
    /\ rpcLog' = Append(rpcLog, "GetLatestBlockHeader")
    /\ \/ /\ ret' = ErrRet("SendTransaction", "GetLatestBlockHeader")
          /\ pc' = "returned"
          /\ UNCHANGED <<tx, sealed>>
       \/ \E sealedID \in BlockIDs :
             /\ sealed' = sealedID
             /\ tx' = SetPayload(tx, sealedID, proposerKey(tx, fetched))
             /\ pc' = "Sign"
             /\ UNCHANGED ret
    /\ UNCHANGED <<fetched, waitSeal, callerCancelled, observed>>
    /\ UNCHANGED notRemote

\* A SendTransaction that drops the error of tx.Sign() and goes on to submit.
SignStepIgnoringError ==
    /\ pc = "Sign"
    /\ rpcLog' = Append(rpcLog, "Sign")
    /\ \/ UNCHANGED tx
       \/ tx' = [tx EXCEPT !.signed = TRUE]
    /\ pc' = "SendTransaction"
    /\ UNCHANGED <<fetched, waitSeal, ret, callerCancelled>>
    /\ UNCHANGED <<sealed, observed>>
    /\ UNCHANGED notRemote

\* SendTransaction, line 103-108.
SignStep ==
    /\ pc = "Sign"
    /\ rpcLog' = Append(rpcLog, "Sign")
    /\ \/ /\ ret' = ErrRet("SendTransaction", "Sign")
          /\ pc' = "returned"
          /\ UNCHANGED tx
       \/ /\ tx' = [tx EXCEPT !.signed = TRUE]
          /\ pc' = "SendTransaction"
          /\ UNCHANGED ret
    /\ UNCHANGED <<fetched, waitSeal, callerCancelled>>
    /\ UNCHANGED <<sealed, observed>>
    /\ UNCHANGED notRemote

\* SendSignedTransaction, line 112-121: the submit RPC.
SendSignedTransactionStep ==
    /\ pc = "SendTransaction"
    /\ rpcLog' = Append(rpcLog, "SendTransaction")
    /\ \/ /\ ret' = ErrRet("SendTransaction", "SendTransaction")
          /\ pc' = "returned"
       \/ /\ ret' = OkRet("SendTransaction", "none")
          /\ pc' = "sent"
    /\ UNCHANGED <<tx, fetched, waitSeal, callerCancelled>>
    /\ UNCHANGED <<sealed, observed>>
    /\ UNCHANGED notRemote

\* The caller asks for the result of the transaction it sent.
CallGetTransactionResult ==
    /\ pc = "sent"
    /\ \E w \in BOOLEAN : waitSeal' = w
    /\ pc' = "GetTransactionResult"
    /\ ret' = NoRet
    /\ UNCHANGED <<tx, fetched, rpcLog, callerCancelled>>
    /\ UNCHANGED <<sealed, observed>>
    /\ UNCHANGED notRemote

Polls == Len(SelectSeq(rpcLog, LAMBDA s : s = "GetTransactionResult"))

\* A GetTransactionResult that treats an RPC error like a status that is not
\* sealed yet.
GetTransactionResultStepRetryingOnError ==
    /\ pc = "GetTransactionResult"
    /\ Polls < MaxPolls
    /\ rpcLog' = Append(rpcLog, "GetTransactionResult")
    /\ \/ /\ observed' = "error"
          /\ IF waitSeal
             THEN /\ pc' = "Sleep"
                  /\ UNCHANGED ret
             ELSE /\ ret' = ErrRet("GetTransactionResult", "GetTransactionResult")
                  /\ pc' = "returned"
       \/ \E status \in Statuses :
             /\ observed' = status
             /\ IF status # "Sealed" /\ waitSeal
                THEN /\ pc' = "Sleep"
                     /\ UNCHANGED ret
                ELSE /\ ret' = OkRet("GetTransactionResult", status)
                     /\ pc' = "returned"
    /\ UNCHANGED <<tx, fetched, waitSeal, callerCancelled, sealed>>
    /\ UNCHANGED notRemote

\* GetTransactionResult, line 130-140: one attempt.
GetTransactionResultStep ==
    /\ pc = "GetTransactionResult"
    /\ Polls < MaxPolls
    /\ IF CtxDone(ctx)
       THEN \* the client refuses an RPC under a done context
            /\ ret' = ErrRet("GetTransactionResult", "cancelled")
            /\ pc' = "returned"
            /\ UNCHANGED <<rpcLog, observed>>
       ELSE /\ rpcLog' = Append(rpcLog, "GetTransactionResult")
            /\ \/ /\ observed' = "error"
                  /\ ret' = ErrRet("GetTransactionResult", "GetTransactionResult")
                  /\ pc' = "returned"
               \/ \E status \in Statuses :
                     /\ observed' = status
                     /\ IF status # "Sealed" /\ waitSeal
                        THEN /\ pc' = "Sleep"
                             /\ UNCHANGED ret
                        ELSE /\ ret' = OkRet("GetTransactionResult", status)
                             /\ pc' = "returned"
    /\ UNCHANGED <<tx, fetched, waitSeal, callerCancelled, sealed>>
    /\ UNCHANGED notRemote

\* A retry that goes back to the submit RPC instead of the result RPC.
SleepStepResubmitting ==
    /\ pc = "Sleep"
    /\ pc' = "SendTransaction"
    /\ UNCHANGED <<tx, fetched, waitSeal, rpcLog, ret, callerCancelled>>
    /\ UNCHANGED <<sealed, observed>>
    /\ UNCHANGED notRemote

\* GetTransactionResult, line 136-137: sleep a second, then call itself.
SleepStep ==
    /\ pc = "Sleep"
    /\ pc' = "GetTransactionResult"
    /\ UNCHANGED <<tx, fetched, waitSeal, rpcLog, ret, callerCancelled>>
    /\ UNCHANGED <<sealed, observed>>
    /\ UNCHANGED notRemote

\* The caller gives up between two polling attempts.  The gateway offers no
\* parameter for it: the only context is the one NewGrpcGateway made.
CallerCancel ==
    /\ pc = "Sleep"
    /\ ~callerCancelled
    /\ callerCancelled' = TRUE
    /\ UNCHANGED <<pc, tx, fetched, waitSeal, rpcLog, ret>>
    /\ UNCHANGED <<sealed, observed>>
    /\ UNCHANGED notRemote

\* An error value is its chain, outermost first: link "message" is an error made
\* of text only, "status" is the error the access node client hands back,
\* "signer" is the error of a failed signature.
BackendError == <<"status">>
SignerError == <<"signer">>

\* fmt.Errorf("...: %w", err): a message that keeps err reachable by Unwrap.
ErrorfW(err) == <<"message">> \o err

\* fmt.Errorf(status.Convert(err).Message()): the message only.
UnwrapStatusError(err) == <<"message">>

\* The error value the remote gateway returns for a failure at a stage.
RemoteError(stage) ==
    CASE stage = "GetAccount" -> ErrorfW(BackendError)
      [] stage = "GetLatestBlockHeader" -> ErrorfW(BackendError)
      [] stage = "Sign" -> ErrorfW(SignerError)
      [] stage = "SendTransaction" -> ErrorfW(BackendError)
      [] stage = "GetTransactionResult" -> BackendError
      [] OTHER -> BackendError

\* The error value the embedded gateway returns for a backend failure.
EmbeddedError == UnwrapStatusError(BackendError)

RemoteNext ==
    \/ CallSendTransaction
    \/ GetAccountStep
    \/ GetLatestBlockHeaderStep
    \/ SignStep
    \/ SendSignedTransactionStep
    \/ CallGetTransactionResult
    \/ GetTransactionResultStep
    \/ SleepStep
    \/ CallerCancel

(***************************************************************************)
(* EmulatorGateway                                                         *)
(***************************************************************************)
\* Bounds: transactions one emulator ledger can hold in the model.
MaxTxs == 2

TxIDs == {"t1", "t2"}
SnapshotNames == {"a", "b"}

EmptyMap == [n \in {} |-> 0]
Put(m, k, v) == [x \in (DOMAIN m) \cup {k} |-> IF x = k THEN v ELSE m[x]]

NoEmbRet == [call |-> "none", arg |-> "none", kind |-> "none", status |-> "none", waitSeal |-> FALSE]
EmbRet(call, arg, kind) == [call |-> call, arg |-> arg, kind |-> kind, status |-> "none", waitSeal |-> FALSE]

\* The ledger of the emulator the backend currently runs on.
LiveState == heap[backendEmu]

\* NewEmulatorGatewayWithOpts: one emulator object, an empty snapshot map.
EmbeddedInit ==
    /\ heap = << << >> >>
    /\ backendEmu = 1
    /\ snapshots = EmptyMap
    /\ embRet = NoEmbRet
    /\ capturedAt = EmptyMap
    /\ timesCreated = << >>
    /\ listed = << >>
    /\ pc = "idle"
    /\ tx = NewTransaction(NilAccount, NilAccount, 0)
    /\ fetched = << >>
    /\ waitSeal = FALSE
    /\ rpcLog = << >>
    /\ ret = NoRet
    /\ callerCancelled = FALSE
    /\ sealed = "none"
    /\ observed = "none"
    /\ sendFlags = [Signer |-> "", Proposer |-> "", Payer |-> "", Autorizer |-> << >>]
    /\ buildFlags = [Payer |-> ""]
    /\ sendOut = [called |-> FALSE, stage |-> "none", sent |-> FALSE,
                  roles |-> [err |-> "none", role |-> "none", name |-> "none",
                             proposer |-> "nil", payer |-> "nil", authorizers |-> << >>]]
    /\ signRoles = [proposer |-> "nil", payer |-> "nil", authorizers |-> << >>]
    /\ payloadSignatures = << >>
    /\ envelopeSignatures = << >>
    /\ signPc = "idle"
    /\ evChain = << >>
    /\ evArgs = [start |-> 0, end |-> 0]
    /\ evHeight = 0
    /\ evEvents = << >>
    /\ evRet = "idle"
    /\ stAccounts = << >>
    /\ stLast = [op |-> "none", name |-> "none", address |-> "none", err |-> "none"]
    /\ ccDeployments = << >>
    /\ ccResult = [done |-> FALSE, value |-> FALSE]
    /\ netStatus = "Unknown"
    /\ pollPc = "idle"
    /\ pollWaitSeal = FALSE
    /\ pollRet = [kind |-> "none", status |-> "none"]
    /\ pollSeen = {}
    /\ legacyFlags = [ArgsJSON |-> "", Arg |-> << >>, Signer |-> "", Code |-> "", Results |-> FALSE, Args |-> "", Payload |-> ""]
    /\ legacyArgs = << >>
    /\ legacyOut = [called |-> FALSE, err |-> "none", sendCalled |-> FALSE, filename |-> "none", payload |-> "none", signer |-> "none", arg |-> << >>, argsJSON |-> "none"]

\* backend.Backend.GetEmulator: the emulator the backend holds, by reference
\* (backend.Emulator is an interface over *emulator.Blockchain).
GetEmulator == backendEmu

\* EmulatorGateway.SendSignedTransaction: the backend adds the transaction and,
\* auto-mining, commits it to the ledger of its emulator.
EmuSendSignedTransaction(t) ==
    /\ Len(LiveState) < MaxTxs
    /\ \/ /\ heap' = [heap EXCEPT ![backendEmu] = Append(@, t)]
          /\ embRet' = EmbRet("SendSignedTransaction", t, "ok")
       \/ /\ embRet' = EmbRet("SendSignedTransaction", t, "error")
          /\ UNCHANGED heap
    /\ UNCHANGED <<backendEmu, snapshots, capturedAt>>
    /\ UNCHANGED <<timesCreated, listed>>
    /\ UNCHANGED notEmbedded

\* EmulatorGateway.GetTransactionResult: one backend call, whose result is
\* returned as it is; waitSeal is not read.
EmuGetTransactionResult(id, w) ==
    /\ \/ embRet' = [EmbRet("GetTransactionResult", id, "error") EXCEPT !.waitSeal = w]
       \/ \E status \in Statuses :
             embRet' = [EmbRet("GetTransactionResult", id, "ok") EXCEPT
                           !.status = status, !.waitSeal = w]
    /\ UNCHANGED <<heap, backendEmu, snapshots, capturedAt>>
    /\ UNCHANGED <<timesCreated, listed>>
    /\ UNCHANGED notEmbedded

\* EmulatorGateway.CreateSnapshot.
CreateSnapshot(name) ==
    /\ snapshots' = Put(snapshots, name, GetEmulator)
    /\ capturedAt' = Put(capturedAt, name, LiveState)
    /\ timesCreated' = Put(timesCreated, name,
                            IF name \in DOMAIN timesCreated THEN 2 ELSE 1)
    /\ embRet' = EmbRet("CreateSnapshot", name, "ok")
    /\ UNCHANGED <<heap, backendEmu, listed>>
    /\ UNCHANGED notEmbedded

\* A LoadSnapshot that takes the snapshot out of the store.
LoadSnapshotConsuming(name) ==
    /\ IF name \notin DOMAIN snapshots
       THEN /\ embRet' = EmbRet("LoadSnapshot", name, "error")
            /\ UNCHANGED <<backendEmu, snapshots>>
       ELSE /\ backendEmu' = snapshots[name]
            /\ snapshots' = [n \in DOMAIN snapshots \ {name} |-> snapshots[n]]
            /\ embRet' = EmbRet("LoadSnapshot", name, "ok")
    /\ UNCHANGED <<heap, capturedAt>>
    /\ UNCHANGED <<timesCreated, listed>>
    /\ UNCHANGED notEmbedded

\* A LoadSnapshot that does not test `ok`: the missing name is entered into the
\* map with the running emulator and nil is returned.
LoadSnapshotUnchecked(name) ==
    /\ snapshots' = Put(snapshots, name, IF name \in DOMAIN snapshots THEN snapshots[name] ELSE backendEmu)
    /\ backendEmu' = snapshots'[name]
    /\ embRet' = EmbRet("LoadSnapshot", name, "ok")
    /\ UNCHANGED <<heap, capturedAt>>
    /\ UNCHANGED <<timesCreated, listed>>
    /\ UNCHANGED notEmbedded

\* EmulatorGateway.LoadSnapshot.
LoadSnapshot(name) ==
    /\ IF name \notin DOMAIN snapshots
       THEN /\ embRet' = EmbRet("LoadSnapshot", name, "error")
            /\ UNCHANGED backendEmu
       ELSE /\ backendEmu' = snapshots[name]      \* backend.SetEmulator
            /\ embRet' = EmbRet("LoadSnapshot", name, "ok")
    /\ UNCHANGED <<heap, snapshots, capturedAt>>
    /\ UNCHANGED <<timesCreated, listed>>
    /\ UNCHANGED notEmbedded

\* The orders maps.Keys can return the keys of a map in.
KeyOrders(m) ==
    { order \in [1 .. Cardinality(DOMAIN m) -> DOMAIN m] :
        \A i, j \in DOMAIN order : order[i] = order[j] => i = j }

\* EmulatorGateway.ListSnapshots.
ListSnapshots ==
    /\ \E order \in KeyOrders(snapshots) : listed' = order
    /\ embRet' = EmbRet("ListSnapshots", "none", "ok")
    /\ UNCHANGED <<heap, backendEmu, snapshots, capturedAt, timesCreated>>
    /\ UNCHANGED notEmbedded

EmbeddedNext ==
    \/ \E t \in TxIDs : EmuSendSignedTransaction(t)
    \/ \E id \in TxIDs, w \in BOOLEAN : EmuGetTransactionResult(id, w)
    \/ \E name \in SnapshotNames : CreateSnapshot(name)
    \/ \E name \in SnapshotNames : LoadSnapshot(name)
    \/ ListSnapshots

(***************************************************************************)
(* transactions send: role resolution                                      *)
(***************************************************************************)
\* Bound: authorizer names given to one send.
MaxAuthorizers == 2

\* Accounts of the configuration; "ghost" is a name no account has.
ConfigAccounts == {"alice", "bob"}
RoleNames == {"", "alice", "bob", "ghost"}
AuthorizerLists == UNION { [1 .. n -> RoleNames \ {""}] : n \in 0 .. MaxAuthorizers }

\* The nil *flowkit.Account.
Nil == "nil"

\* state.Accounts().ByName: the account of that name, or an error.
ByName(name) ==
    IF name \in ConfigAccounts
    THEN [err |-> FALSE, account |-> name]
    ELSE [err |-> TRUE, account |-> Nil]

Resolved(proposer, payer, authorizers) ==
    [err |-> "none", role |-> "none", name |-> "none",
     proposer |-> proposer, payer |-> payer, authorizers |-> authorizers]
RoleError(kind, role, name) ==
    [err |-> kind, role |-> role, name |-> name,
     proposer |-> Nil, payer |-> Nil, authorizers |-> << >>]

\* send, line 79: where the payer name is read from.
payerName(s, b) == b.Payer

\* send, line 87-93: the authorizers resolved so far, up to the first name
\* that has no account.
RECURSIVE ResolveAuthorizers(_, _)
ResolveAuthorizers(names, acc) ==
    IF names = << >>
    THEN [err |-> FALSE, name |-> "none", accounts |-> acc]
    ELSE IF ByName(Head(names)).err
         THEN [err |-> TRUE, name |-> Head(names), accounts |-> acc]
         ELSE ResolveAuthorizers(Tail(names), Append(acc, ByName(Head(names)).account))

\* send, line 95-108: the signer takes every role.
ResolveSigner(s, proposer, payer, authorizers) ==
    IF s.Signer = ""
    THEN Resolved(proposer, payer, authorizers)
    ELSE IF proposer # Nil \/ payer # Nil \/ Len(authorizers) > 0
         THEN RoleError("RoleConflict", "signer", s.Signer)
         ELSE IF ByName(s.Signer).err
              THEN RoleError("AccountNotFound", "signer", s.Signer)
              ELSE Resolved(ByName(s.Signer).account, ByName(s.Signer).account,
                            Append(authorizers, ByName(s.Signer).account))

\* send, line 66-108: the roles of the transaction, or the first error.
ResolveRoles(s, b) ==
    LET proposer == IF s.Proposer # "" THEN ByName(s.Proposer) ELSE [err |-> FALSE, account |-> Nil]
        payer == IF payerName(s, b) # "" THEN ByName(payerName(s, b)) ELSE [err |-> FALSE, account |-> Nil]
        auths == ResolveAuthorizers(s.Autorizer, << >>)
    IN  IF proposer.err THEN RoleError("AccountNotFound", "proposer", s.Proposer)
        ELSE IF payer.err THEN RoleError("AccountNotFound", "payer", payerName(s, b))
        ELSE IF auths.err THEN RoleError("AccountNotFound", "authorizer", auths.name)
        ELSE ResolveSigner(s, proposer.account, payer.account, auths.accounts)

NoOut == [called |-> FALSE, roles |-> RoleError("none", "none", "none"),
          stage |-> "none", sent |-> FALSE]

\* Any flag values the command line can carry.
RolesInit ==
    /\ sendFlags \in [Signer : RoleNames, Proposer : RoleNames, Payer : RoleNames,
                      Autorizer : AuthorizerLists]
    /\ buildFlags \in [Payer : RoleNames]
    /\ sendOut = NoOut
    /\ pc = "idle"
    /\ tx = NewTransaction(NilAccount, NilAccount, 0)
    /\ fetched = << >>
    /\ waitSeal = FALSE
    /\ rpcLog = << >>
    /\ ret = NoRet
    /\ callerCancelled = FALSE
    /\ sealed = "none"
    /\ observed = "none"
    /\ heap = << << >> >>
    /\ backendEmu = 1
    /\ snapshots = EmptyMap
    /\ embRet = NoEmbRet
    /\ capturedAt = EmptyMap
    /\ timesCreated = << >>
    /\ listed = << >>
    /\ signRoles = [proposer |-> "nil", payer |-> "nil", authorizers |-> << >>]
    /\ payloadSignatures = << >>
    /\ envelopeSignatures = << >>
    /\ signPc = "idle"
    /\ evChain = << >>
    /\ evArgs = [start |-> 0, end |-> 0]
    /\ evHeight = 0
    /\ evEvents = << >>
    /\ evRet = "idle"
    /\ stAccounts = << >>
    /\ stLast = [op |-> "none", name |-> "none", address |-> "none", err |-> "none"]
    /\ ccDeployments = << >>
    /\ ccResult = [done |-> FALSE, value |-> FALSE]
    /\ netStatus = "Unknown"
    /\ pollPc = "idle"
    /\ pollWaitSeal = FALSE
    /\ pollRet = [kind |-> "none", status |-> "none"]
    /\ pollSeen = {}
    /\ legacyFlags = [ArgsJSON |-> "", Arg |-> << >>, Signer |-> "", Code |-> "", Results |-> FALSE, Args |-> "", Payload |-> ""]
    /\ legacyArgs = << >>
    /\ legacyOut = [called |-> FALSE, err |-> "none", sendCalled |-> FALSE, filename |-> "none", payload |-> "none", signer |-> "none", arg |-> << >>, argsJSON |-> "none"]

\* send: resolve the roles, read the file, parse the arguments, build the
\* roles object and call Transactions.Send.  The collaborators after the
\* resolution may each fail, Transactions.Send included: sent says the call
\* was made, stage names the step whose error send returned.
send ==
    /\ ~sendOut.called
    /\ LET r == ResolveRoles(sendFlags, buildFlags) IN
          IF r.err # "none"
          THEN sendOut' = [called |-> TRUE, roles |-> r, stage |-> "roles", sent |-> FALSE]
          ELSE \/ \E stage \in {"ReadFile", "ParseArguments", "NewTransactionAccountRoles"} :
                     sendOut' = [called |-> TRUE, roles |-> r, stage |-> stage, sent |-> FALSE]
               \/ \E stage \in {"Transactions.Send", "none"} :
                     sendOut' = [called |-> TRUE, roles |-> r, stage |-> stage, sent |-> TRUE]
    /\ UNCHANGED <<sendFlags, buildFlags>>
    /\ UNCHANGED notRoles

RolesNext == send

(***************************************************************************)
(* Signing pipeline                                                        *)
(***************************************************************************)
\* Authorizers of a staged envelope, in declaration order.
AuthorizerAccounts == UNION { [1 .. n -> ProjectAccounts] : n \in 0 .. MaxAuthorizers }

\* The key of the signature maps: (address, keyIndex).
SigKey(a) == <<a.address, a.keyIndex>>

Range(seq) == { seq[i] : i \in 1 .. Len(seq) }

\* A sequence without its repeated elements, first occurrences kept in order.
RECURSIVE Dedup(_)
Dedup(seq) ==
    IF seq = << >> THEN << >>
    ELSE LET front == Dedup(SubSeq(seq, 1, Len(seq) - 1))
             last == seq[Len(seq)]
         IN IF last \in Range(front) THEN front ELSE Append(front, last)

\* Payload signers that leave the proposer out.
PayloadSignersAuthorizersOnly(r) ==
    Dedup([i \in 1 .. Len(r.authorizers) |-> SigKey(r.authorizers[i])])

\* The keys that sign the payload: authorizers in declaration order, proposer
\* last if it is not also an authorizer.
PayloadSigners(r) ==
    LET auth == Dedup([i \in 1 .. Len(r.authorizers) |-> SigKey(r.authorizers[i])])
    IN IF SigKey(r.proposer) \in Range(auth)
       THEN auth
       ELSE Append(auth, SigKey(r.proposer))

\* A staged envelope with its roles resolved and no signature yet.
SignInit ==
    /\ signRoles \in [proposer : ProjectAccounts, payer : ProjectAccounts,
                       authorizers : AuthorizerAccounts]
    /\ payloadSignatures = << >>
    /\ envelopeSignatures = << >>
    /\ signPc = "payload"
    /\ pc = "idle"
    /\ tx = NewTransaction(NilAccount, NilAccount, 0)
    /\ fetched = << >>
    /\ waitSeal = FALSE
    /\ rpcLog = << >>
    /\ ret = NoRet
    /\ callerCancelled = FALSE
    /\ sealed = "none"
    /\ observed = "none"
    /\ heap = << << >> >>
    /\ backendEmu = 1
    /\ snapshots = EmptyMap
    /\ embRet = NoEmbRet
    /\ capturedAt = EmptyMap
    /\ timesCreated = << >>
    /\ listed = << >>
    /\ sendFlags = [Signer |-> "", Proposer |-> "", Payer |-> "", Autorizer |-> << >>]
    /\ buildFlags = [Payer |-> ""]
    /\ sendOut = NoOut
    /\ evChain = << >>
    /\ evArgs = [start |-> 0, end |-> 0]
    /\ evHeight = 0
    /\ evEvents = << >>
    /\ evRet = "idle"
    /\ stAccounts = << >>
    /\ stLast = [op |-> "none", name |-> "none", address |-> "none", err |-> "none"]
    /\ ccDeployments = << >>
    /\ ccResult = [done |-> FALSE, value |-> FALSE]
    /\ netStatus = "Unknown"
    /\ pollPc = "idle"
    /\ pollWaitSeal = FALSE
    /\ pollRet = [kind |-> "none", status |-> "none"]
    /\ pollSeen = {}
    /\ legacyFlags = [ArgsJSON |-> "", Arg |-> << >>, Signer |-> "", Code |-> "", Results |-> FALSE, Args |-> "", Payload |-> ""]
    /\ legacyArgs = << >>
    /\ legacyOut = [called |-> FALSE, err |-> "none", sendCalled |-> FALSE, filename |-> "none", payload |-> "none", signer |-> "none", arg |-> << >>, argsJSON |-> "none"]

\* One payload signer is invoked; a signer that errors ends the pipeline.
SignPayloadStep ==
    /\ signPc = "payload"
    /\ Len(payloadSignatures) < Len(PayloadSigners(signRoles))
    /\ \/ /\ signPc' = "failed"
          /\ UNCHANGED payloadSignatures
       \/ /\ payloadSignatures' =
                Append(payloadSignatures,
                       PayloadSigners(signRoles)[Len(payloadSignatures) + 1])
          /\ UNCHANGED signPc
    /\ UNCHANGED <<signRoles, envelopeSignatures>>
    /\ UNCHANGED notSign

\* The payer signs the envelope once every payload signature is in.
SignEnvelopeStep ==
    /\ signPc = "payload"
    /\ Len(payloadSignatures) = Len(PayloadSigners(signRoles))
    /\ \/ /\ signPc' = "failed"
          /\ UNCHANGED envelopeSignatures
       \/ /\ envelopeSignatures' = Append(envelopeSignatures, SigKey(signRoles.payer))
          /\ signPc' = "complete"
    /\ UNCHANGED <<signRoles, payloadSignatures>>
    /\ UNCHANGED notSign

SignNext ==
    \/ SignPayloadStep
    \/ SignEnvelopeStep

(***************************************************************************)
(* EmulatorGateway.GetEvents                                               *)
(***************************************************************************)
\* Bounds: the height type is HeightBits wide (uint64 in the code); the
\* emulator holds blocks 0 .. latest with latest <= MaxLatest.
HeightBits == 2
MaxLatest == 2

Heights == 0 .. (2 ^ HeightBits - 1)

\* height++ on the unsigned height type.
NextHeight(h) == (h + 1) % (2 ^ HeightBits)

\* Events of the requested type a block can hold, as the backend stores them;
\* "bad" is an event whose payload the conversion cannot decode.
FlowEventLists == { << >>, <<"e1">>, <<"e1", "e2">>, <<"e1", "bad">> }

\* A block of the emulator: its events of the requested type, and whether the
\* backend fails when asked for them.
StoredBlocks == [matching : FlowEventLists, eventsFail : BOOLEAN]
\* The latest height stays below the largest height of the type: a chain never
\* holds a block at every height.
Chains ==
    UNION { [1 .. n -> StoredBlocks] :
              n \in { k \in 1 .. (MaxLatest + 1) : k < 2 ^ HeightBits } }

\* A Go slice: nil or not, and its elements.
NilSlice == [nil |-> TRUE, items |-> << >>]
Slice(items) == [nil |-> FALSE, items |-> items]

\* backend.GetBlockByHeight: the block, or nil with an error above the latest
\* height.
GetBlockByHeight(chain, h) ==
    IF h < Len(chain)
    THEN [nil |-> FALSE, id |-> h, height |-> h]
    ELSE [nil |-> TRUE, id |-> -1, height |-> -1]

\* backend.GetEventsForBlockIDs for one block ID: one batch for the block, or
\* nil with an error.
GetEventsForBlockIDs(chain, id) ==
    IF chain[id + 1].eventsFail
    THEN NilSlice
    ELSE Slice(<<[BlockID |-> id, Events |-> chain[id + 1].matching]>>)

\* sdk.FlowEventsToSDK: one converted event per stored event, in order, or nil
\* with an error when an event cannot be converted.
FlowEventsToSDK(evs) ==
    IF \E i \in 1 .. Len(evs) : evs[i] = "bad"
    THEN NilSlice
    ELSE Slice([i \in 1 .. Len(evs) |-> <<"sdk", evs[i]>>])

\* getBlockEvent once the block is in hand: the errors are dropped, the batch
\* of the block is taken if the backend returned one, and the result of its
\* conversion replaces the empty list whether the conversion failed or not.
BlockEvent(chain, block) ==
    LET events == GetEventsForBlockIDs(chain, block.id)
        hits == SelectSeq(events.items, LAMBDA e : e.BlockID = block.id)
    IN [BlockID |-> block.id,
        Height |-> block.height,
        Events |-> IF hits # << >> THEN FlowEventsToSDK(hits[1].Events)
                   ELSE Slice(<< >>)]

\* An emulator with its genesis block and up to MaxLatest more.
EventsInit ==
    /\ evChain \in Chains
    /\ evArgs = [start |-> 0, end |-> 0]
    /\ evHeight = 0
    /\ evEvents = << >>
    /\ evRet = "none"
    /\ pc = "idle"
    /\ tx = NewTransaction(NilAccount, NilAccount, 0)
    /\ fetched = << >>
    /\ waitSeal = FALSE
    /\ rpcLog = << >>
    /\ ret = NoRet
    /\ callerCancelled = FALSE
    /\ sealed = "none"
    /\ observed = "none"
    /\ heap = << << >> >>
    /\ backendEmu = 1
    /\ snapshots = EmptyMap
    /\ embRet = NoEmbRet
    /\ capturedAt = EmptyMap
    /\ timesCreated = << >>
    /\ listed = << >>
    /\ sendFlags = [Signer |-> "", Proposer |-> "", Payer |-> "", Autorizer |-> << >>]
    /\ buildFlags = [Payer |-> ""]
    /\ sendOut = NoOut
    /\ signRoles = [proposer |-> "nil", payer |-> "nil", authorizers |-> << >>]
    /\ payloadSignatures = << >>
    /\ envelopeSignatures = << >>
    /\ signPc = "idle"
    /\ stAccounts = << >>
    /\ stLast = [op |-> "none", name |-> "none", address |-> "none", err |-> "none"]
    /\ ccDeployments = << >>
    /\ ccResult = [done |-> FALSE, value |-> FALSE]
    /\ netStatus = "Unknown"
    /\ pollPc = "idle"
    /\ pollWaitSeal = FALSE
    /\ pollRet = [kind |-> "none", status |-> "none"]
    /\ pollSeen = {}
    /\ legacyFlags = [ArgsJSON |-> "", Arg |-> << >>, Signer |-> "", Code |-> "", Results |-> FALSE, Args |-> "", Payload |-> ""]
    /\ legacyArgs = << >>
    /\ legacyOut = [called |-> FALSE, err |-> "none", sendCalled |-> FALSE, filename |-> "none", payload |-> "none", signer |-> "none", arg |-> << >>, argsJSON |-> "none"]

\* The caller asks for the events of a height range.
CallGetEvents ==
    /\ evRet = "none"
    /\ \E s \in Heights, e \in Heights :
          /\ evArgs' = [start |-> s, end |-> e]
          /\ evHeight' = s
    /\ evEvents' = << >>
    /\ evRet' = "running"
    /\ UNCHANGED evChain
    /\ UNCHANGED notEvents

\* A round that answers a missing block with an entry without events and lets
\* the loop go on.
getBlockEventSkippingMissing ==
    /\ evRet = "running"
    /\ evHeight <= evArgs.end
    /\ LET block == GetBlockByHeight(evChain, evHeight)
       IN evEvents' = Append(evEvents,
                        IF block.nil
                        THEN [BlockID |-> -1, Height |-> evHeight,
                              Events |-> Slice(<< >>)]
                        ELSE BlockEvent(evChain, block))
    /\ evHeight' = NextHeight(evHeight)
    /\ UNCHANGED <<evChain, evArgs, evRet>>
    /\ UNCHANGED notEvents

\* One round of the loop of GetEvents: getBlockEvent(height), append, height++.
getBlockEvent ==
    /\ evRet = "running"
    /\ evHeight <= evArgs.end
    /\ LET block == GetBlockByHeight(evChain, evHeight)
       IN IF block.nil
          THEN \* block.ID() on a nil block: runtime panic
               /\ evRet' = "panic"
               /\ UNCHANGED <<evEvents, evHeight>>
          ELSE /\ evEvents' = Append(evEvents, BlockEvent(evChain, block))
               /\ evHeight' = NextHeight(evHeight)
               /\ UNCHANGED evRet
    /\ UNCHANGED <<evChain, evArgs>>
    /\ UNCHANGED notEvents

\* The loop condition fails: return events, nil.
GetEventsReturn ==
    /\ evRet = "running"
    /\ ~(evHeight <= evArgs.end)
    /\ evRet' = "ok"
    /\ UNCHANGED <<evChain, evArgs, evHeight, evEvents>>
    /\ UNCHANGED notEvents

EventsNext ==
    \/ CallGetEvents
    \/ getBlockEvent
    \/ GetEventsReturn

(***************************************************************************)
(* State: accounts                                                         *)
(***************************************************************************)
AccountNames == {"emulator-account", "alice", "bob"}
\* *Account: the name and what else the account holds.
Accounts == [name : AccountNames, address : Addresses]

\* The nil *Account.
NoAccount == [name |-> "nil", address |-> "nil"]

\* AccountByName: the last account of that name, or nil.
AccountByName(accounts, name) ==
    LET at == { i \in 1 .. Len(accounts) : accounts[i].name = name }
    IN IF at = {} THEN NoAccount
       ELSE accounts[CHOOSE i \in at : \A j \in at : j <= i]

\* An AddOrUpdateAccount that appends without looking for the name.
AppendAccount(accounts, account) == Append(accounts, account)

\* AddOrUpdateAccount: replace the first account of that name, else append.
AddOrUpdateAccount(accounts, account) ==
    LET at == { i \in 1 .. Len(accounts) : accounts[i].name = account.name }
    IN IF at = {} THEN Append(accounts, account)
       ELSE [accounts EXCEPT ![CHOOSE i \in at : \A j \in at : i <= j] = account]

\* The loop of RemoveAccount from round i on (i counts from 1).  array is the
\* backing array the range statement walks, n its length when the loop began;
\* len is the current length of p.accounts, which shares the array.
RECURSIVE RemoveLoop(_, _, _, _, _)
RemoveLoop(array, len, i, n, name) ==
    IF i > n THEN [accounts |-> SubSeq(array, 1, len), panic |-> FALSE]
    ELSE IF array[i].name # name THEN RemoveLoop(array, len, i + 1, n, name)
    ELSE IF i > len
         THEN \* p.accounts[i+1:] beyond the length: runtime panic
              [accounts |-> SubSeq(array, 1, len), panic |-> TRUE]
         ELSE \* append(p.accounts[0:i], p.accounts[i+1:]...) shifts in place
              RemoveLoop([k \in 1 .. n |->
                             IF k >= i /\ k < len THEN array[k + 1] ELSE array[k]],
                         len - 1, i + 1, n, name)

\* A RemoveAccount that cuts the list at the account it removes.
RemoveAccountCuttingTail(accounts, name) ==
    IF AccountByName(accounts, name) = NoAccount
    THEN [accounts |-> accounts, err |-> "does not exist"]
    ELSE LET i == CHOOSE k \in 1 .. Len(accounts) : accounts[k].name = name
         IN [accounts |-> SubSeq(accounts, 1, i - 1), err |-> "nil"]

\* RemoveAccount: the accounts after the call and its error.
RemoveAccount(accounts, name) ==
    IF AccountByName(accounts, name) = NoAccount
    THEN [accounts |-> accounts, err |-> "does not exist"]
    ELSE LET r == RemoveLoop(accounts, Len(accounts), 1, Len(accounts), name)
         IN [accounts |-> r.accounts, err |-> IF r.panic THEN "panic" ELSE "nil"]

\* Init: a new project holding the emulator service account.
StateInit ==
    /\ \E address \in Addresses :
          stAccounts = << [name |-> "emulator-account", address |-> address] >>
    /\ stLast = [op |-> "none", name |-> "none", address |-> "none", err |-> "none"]
    /\ pc = "idle"
    /\ tx = NewTransaction(NilAccount, NilAccount, 0)
    /\ fetched = << >>
    /\ waitSeal = FALSE
    /\ rpcLog = << >>
    /\ ret = NoRet
    /\ callerCancelled = FALSE
    /\ sealed = "none"
    /\ observed = "none"
    /\ heap = << << >> >>
    /\ backendEmu = 1
    /\ snapshots = EmptyMap
    /\ embRet = NoEmbRet
    /\ capturedAt = EmptyMap
    /\ timesCreated = << >>
    /\ listed = << >>
    /\ sendFlags = [Signer |-> "", Proposer |-> "", Payer |-> "", Autorizer |-> << >>]
    /\ buildFlags = [Payer |-> ""]
    /\ sendOut = NoOut
    /\ signRoles = [proposer |-> "nil", payer |-> "nil", authorizers |-> << >>]
    /\ payloadSignatures = << >>
    /\ envelopeSignatures = << >>
    /\ signPc = "idle"
    /\ evChain = << >>
    /\ evArgs = [start |-> 0, end |-> 0]
    /\ evHeight = 0
    /\ evEvents = << >>
    /\ evRet = "idle"
    /\ ccDeployments = << >>
    /\ ccResult = [done |-> FALSE, value |-> FALSE]
    /\ netStatus = "Unknown"
    /\ pollPc = "idle"
    /\ pollWaitSeal = FALSE
    /\ pollRet = [kind |-> "none", status |-> "none"]
    /\ pollSeen = {}
    /\ legacyFlags = [ArgsJSON |-> "", Arg |-> << >>, Signer |-> "", Code |-> "", Results |-> FALSE, Args |-> "", Payload |-> ""]
    /\ legacyArgs = << >>
    /\ legacyOut = [called |-> FALSE, err |-> "none", sendCalled |-> FALSE, filename |-> "none", payload |-> "none", signer |-> "none", arg |-> << >>, argsJSON |-> "none"]

CallAddOrUpdateAccount ==
    /\ \E account \in Accounts :
          /\ stAccounts' = AddOrUpdateAccount(stAccounts, account)
          /\ stLast' = [op |-> "AddOrUpdateAccount", name |-> account.name,
                        address |-> account.address, err |-> "nil"]
    /\ UNCHANGED notState

CallRemoveAccount ==
    /\ \E name \in AccountNames :
          LET r == RemoveAccount(stAccounts, name)
          IN /\ stAccounts' = r.accounts
             /\ stLast' = [op |-> "RemoveAccount", name |-> name,
                           address |-> "none", err |-> r.err]
    /\ UNCHANGED notState

StateNext ==
    \/ CallAddOrUpdateAccount
    \/ CallRemoveAccount

(***************************************************************************)
(* State: contract deployments                                             *)
(***************************************************************************)
\* Bounds: deployments of one network, contracts of one deployment.
MaxDeploys == 2
MaxContracts == 2

\* Contracts the configuration defines for the network; a deployment may also
\* name one it does not define.
ConfigContracts == {"Foo", "Bar"}
ContractNames == ConfigContracts \cup {"Missing"}

\* config.Deploy of one network: the account name and the contracts to deploy.
ContractLists == UNION { [1 .. n -> ContractNames] : n \in 0 .. MaxContracts }
Deploys == [Account : ConfigAccounts \cup {"ghost"}, Contracts : ContractLists]
\* The deployments of a network hold one entry per account.
DeploymentLists ==
    { ds \in UNION { [1 .. n -> Deploys] : n \in 0 .. MaxDeploys } :
        \A i, j \in 1 .. Len(ds) : ds[i].Account = ds[j].Account => i = j }

\* The inner loop of DeploymentContractsByNetwork over one deployment.
RECURSIVE DeployContracts(_, _)
DeployContracts(account, names) ==
    IF names = << >> THEN [err |-> FALSE, contracts |-> << >>]
    ELSE IF Head(names) \notin ConfigContracts
         THEN [err |-> TRUE, contracts |-> << >>]
         ELSE LET rest == DeployContracts(account, Tail(names))
              IN IF rest.err THEN rest
                 ELSE [err |-> FALSE,
                       contracts |-> <<[Name |-> Head(names), Target |-> account]>>
                                       \o rest.contracts]

\* DeploymentContractsByNetwork: every contract of every deployment, or an
\* error at the first account or contract the configuration does not hold.
RECURSIVE DeploymentContractsByNetwork(_)
DeploymentContractsByNetwork(deployments) ==
    IF deployments = << >> THEN [err |-> FALSE, contracts |-> << >>]
    ELSE LET deploy == Head(deployments)
         IN IF deploy.Account \notin ConfigAccounts
            THEN [err |-> TRUE, contracts |-> << >>]
            ELSE LET own == DeployContracts(deploy.Account, deploy.Contracts)
                     rest == DeploymentContractsByNetwork(Tail(deployments))
                 IN IF own.err THEN own
                    ELSE IF rest.err THEN rest
                    ELSE [err |-> FALSE, contracts |-> own.contracts \o rest.contracts]

\* funk.Uniq
Uniq(names) == Dedup(names)

\* ContractConflictExists
ContractConflictExists(deployments) ==
    LET r == DeploymentContractsByNetwork(deployments)
        all == [i \in 1 .. Len(r.contracts) |-> r.contracts[i].Name]
    IN IF r.err THEN FALSE
       ELSE Len(all) # Len(Uniq(all))

\* A loaded configuration with the deployments of the network asked about.
ContractsInit ==
    /\ ccDeployments \in DeploymentLists
    /\ ccResult = [done |-> FALSE, value |-> FALSE]
    /\ pc = "idle"
    /\ tx = NewTransaction(NilAccount, NilAccount, 0)
    /\ fetched = << >>
    /\ waitSeal = FALSE
    /\ rpcLog = << >>
    /\ ret = NoRet
    /\ callerCancelled = FALSE
    /\ sealed = "none"
    /\ observed = "none"
    /\ heap = << << >> >>
    /\ backendEmu = 1
    /\ snapshots = EmptyMap
    /\ embRet = NoEmbRet
    /\ capturedAt = EmptyMap
    /\ timesCreated = << >>
    /\ listed = << >>
    /\ sendFlags = [Signer |-> "", Proposer |-> "", Payer |-> "", Autorizer |-> << >>]
    /\ buildFlags = [Payer |-> ""]
    /\ sendOut = NoOut
    /\ signRoles = [proposer |-> "nil", payer |-> "nil", authorizers |-> << >>]
    /\ payloadSignatures = << >>
    /\ envelopeSignatures = << >>
    /\ signPc = "idle"
    /\ evChain = << >>
    /\ evArgs = [start |-> 0, end |-> 0]
    /\ evHeight = 0
    /\ evEvents = << >>
    /\ evRet = "idle"
    /\ stAccounts = << >>
    /\ stLast = [op |-> "none", name |-> "none", address |-> "none", err |-> "none"]
    /\ netStatus = "Unknown"
    /\ pollPc = "idle"
    /\ pollWaitSeal = FALSE
    /\ pollRet = [kind |-> "none", status |-> "none"]
    /\ pollSeen = {}
    /\ legacyFlags = [ArgsJSON |-> "", Arg |-> << >>, Signer |-> "", Code |-> "", Results |-> FALSE, Args |-> "", Payload |-> ""]
    /\ legacyArgs = << >>
    /\ legacyOut = [called |-> FALSE, err |-> "none", sendCalled |-> FALSE, filename |-> "none", payload |-> "none", signer |-> "none", arg |-> << >>, argsJSON |-> "none"]

CallContractConflictExists ==
    /\ ~ccResult.done
    /\ ccResult' = [done |-> TRUE, value |-> ContractConflictExists(ccDeployments)]
    /\ UNCHANGED ccDeployments
    /\ UNCHANGED notContracts

ContractsNext == CallContractConflictExists

(***************************************************************************)
(* GrpcGateway.GetTransactionResult against a network                      *)
(***************************************************************************)
\* Statuses a transaction does not leave.
FinalStatuses == {"Sealed", "Expired"}

\* The statuses the network can move a transaction to from status s.
NextStatuses(s) ==
    CASE s = "Unknown" -> {"Pending"}
      [] s = "Pending" -> {"Finalized", "Expired"}
      [] s = "Finalized" -> {"Executed"}
      [] s = "Executed" -> {"Sealed"}
      [] OTHER -> {}

\* A transaction the network has just received, and a caller about to ask.
PollInit ==
    /\ netStatus \in {"Unknown", "Pending"}
    /\ pollPc = "idle"
    /\ pollWaitSeal = FALSE
    /\ pollRet = [kind |-> "none", status |-> "none"]
    /\ pollSeen = {}
    /\ pc = "idle"
    /\ tx = NewTransaction(NilAccount, NilAccount, 0)
    /\ fetched = << >>
    /\ waitSeal = FALSE
    /\ rpcLog = << >>
    /\ ret = NoRet
    /\ callerCancelled = FALSE
    /\ sealed = "none"
    /\ observed = "none"
    /\ heap = << << >> >>
    /\ backendEmu = 1
    /\ snapshots = EmptyMap
    /\ embRet = NoEmbRet
    /\ capturedAt = EmptyMap
    /\ timesCreated = << >>
    /\ listed = << >>
    /\ sendFlags = [Signer |-> "", Proposer |-> "", Payer |-> "", Autorizer |-> << >>]
    /\ buildFlags = [Payer |-> ""]
    /\ sendOut = NoOut
    /\ signRoles = [proposer |-> "nil", payer |-> "nil", authorizers |-> << >>]
    /\ payloadSignatures = << >>
    /\ envelopeSignatures = << >>
    /\ signPc = "idle"
    /\ evChain = << >>
    /\ evArgs = [start |-> 0, end |-> 0]
    /\ evHeight = 0
    /\ evEvents = << >>
    /\ evRet = "idle"
    /\ stAccounts = << >>
    /\ stLast = [op |-> "none", name |-> "none", address |-> "none", err |-> "none"]
    /\ ccDeployments = << >>
    /\ ccResult = [done |-> FALSE, value |-> FALSE]
    /\ legacyFlags = [ArgsJSON |-> "", Arg |-> << >>, Signer |-> "", Code |-> "", Results |-> FALSE, Args |-> "", Payload |-> ""]
    /\ legacyArgs = << >>
    /\ legacyOut = [called |-> FALSE, err |-> "none", sendCalled |-> FALSE, filename |-> "none", payload |-> "none", signer |-> "none", arg |-> << >>, argsJSON |-> "none"]

\* The network moves the transaction on.
NetworkAdvance ==
    /\ \E s \in NextStatuses(netStatus) : netStatus' = s
    /\ UNCHANGED <<pollPc, pollWaitSeal, pollRet, pollSeen>>
    /\ UNCHANGED notPoll

\* The caller asks for the result of a submitted transaction.
CallPoll ==
    /\ pollPc = "idle"
    /\ \E w \in BOOLEAN : pollWaitSeal' = w
    /\ pollPc' = "GetTransactionResult"
    /\ UNCHANGED <<netStatus, pollRet, pollSeen>>
    /\ UNCHANGED notPoll

\* GetTransactionResult, line 130-140: one attempt.
PollAttempt ==
    /\ pollPc = "GetTransactionResult"
    /\ \/ /\ pollRet' = [kind |-> "error", status |-> "none"]
          /\ pollPc' = "returned"
          /\ UNCHANGED pollSeen
       \/ /\ pollSeen' = pollSeen \cup {netStatus}
          /\ IF netStatus # "Sealed" /\ pollWaitSeal
             THEN /\ pollPc' = "Sleep"
                  /\ UNCHANGED pollRet
             ELSE /\ pollRet' = [kind |-> "ok", status |-> netStatus]
                  /\ pollPc' = "returned"
    /\ UNCHANGED <<netStatus, pollWaitSeal>>
    /\ UNCHANGED notPoll

\* GetTransactionResult, line 136-137: sleep a second, then call itself.
PollSleep ==
    /\ pollPc = "Sleep"
    /\ pollPc' = "GetTransactionResult"
    /\ UNCHANGED <<netStatus, pollWaitSeal, pollRet, pollSeen>>
    /\ UNCHANGED notPoll

PollNext ==
    \/ NetworkAdvance
    \/ CallPoll
    \/ PollAttempt
    \/ PollSleep

(***************************************************************************)
(* Legacy transactions send command                                        *)
(***************************************************************************)
\* cobra.MaximumNArgs(1): no positional argument or one, which may be empty.
PositionalArgs == { << >>, <<"tx.cdc">>, <<"">> }

NoLegacyOut ==
    [called |-> FALSE, err |-> "none", sendCalled |-> FALSE, filename |-> "none",
     payload |-> "none", signer |-> "none", arg |-> << >>, argsJSON |-> "none"]

\* Run, the deprecated --args flag: sendFlags after the backward-compatible copy.
CopyDeprecatedArgs(flags) ==
    IF flags.Args # "" /\ Len(flags.Arg) = 0 /\ flags.ArgsJSON = ""
    THEN [flags EXCEPT !.ArgsJSON = flags.Args]
    ELSE flags

\* A Run that prefers the deprecated --code flag to the positional argument.
FilenameCodeFirst(flags, args) ==
    IF flags.Code # "" THEN [ok |-> TRUE, filename |-> flags.Code]
    ELSE IF Len(args) = 1 THEN [ok |-> TRUE, filename |-> args[1]]
    ELSE [ok |-> FALSE, filename |-> ""]

\* Run, the choice of the file name.
Filename(flags, args) ==
    IF Len(args) = 1 THEN [ok |-> TRUE, filename |-> args[1]]
    ELSE IF flags.Code # "" THEN [ok |-> TRUE, filename |-> flags.Code]
    ELSE [ok |-> FALSE, filename |-> ""]

\* The flags and arguments as parsed from one command line.
LegacyInit ==
    /\ legacyFlags \in [ArgsJSON : {"", "[json]"}, Arg : {<< >>, <<"String:x">>},
                         Signer : {"emulator-account"}, Code : {"", "code.cdc"},
                         Results : BOOLEAN, Args : {"", "[old]"}, Payload : {""}]
    /\ legacyArgs \in PositionalArgs
    /\ legacyOut = NoLegacyOut
    /\ pc = "idle"
    /\ tx = NewTransaction(NilAccount, NilAccount, 0)
    /\ fetched = << >>
    /\ waitSeal = FALSE
    /\ rpcLog = << >>
    /\ ret = NoRet
    /\ callerCancelled = FALSE
    /\ sealed = "none"
    /\ observed = "none"
    /\ heap = << << >> >>
    /\ backendEmu = 1
    /\ snapshots = EmptyMap
    /\ embRet = NoEmbRet
    /\ capturedAt = EmptyMap
    /\ timesCreated = << >>
    /\ listed = << >>
    /\ sendFlags = [Signer |-> "", Proposer |-> "", Payer |-> "", Autorizer |-> << >>]
    /\ buildFlags = [Payer |-> ""]
    /\ sendOut = NoOut
    /\ signRoles = [proposer |-> "nil", payer |-> "nil", authorizers |-> << >>]
    /\ payloadSignatures = << >>
    /\ envelopeSignatures = << >>
    /\ signPc = "idle"
    /\ evChain = << >>
    /\ evArgs = [start |-> 0, end |-> 0]
    /\ evHeight = 0
    /\ evEvents = << >>
    /\ evRet = "idle"
    /\ stAccounts = << >>
    /\ stLast = [op |-> "none", name |-> "none", address |-> "none", err |-> "none"]
    /\ ccDeployments = << >>
    /\ ccResult = [done |-> FALSE, value |-> FALSE]
    /\ netStatus = "Unknown"
    /\ pollPc = "idle"
    /\ pollWaitSeal = FALSE
    /\ pollRet = [kind |-> "none", status |-> "none"]
    /\ pollSeen = {}

\* SendCommand.Run.
LegacyRun ==
    /\ ~legacyOut.called
    /\ LET flags == CopyDeprecatedArgs(legacyFlags)
           f == Filename(flags, legacyArgs)
       IN /\ legacyFlags' = flags
          /\ IF ~f.ok
             THEN legacyOut' = [NoLegacyOut EXCEPT !.called = TRUE, !.err = "filename"]
             ELSE \E err \in {"nil", "send"} :
                     legacyOut' = [called |-> TRUE, err |-> err, sendCalled |-> TRUE,
                                   filename |-> f.filename, payload |-> flags.Payload,
                                   signer |-> flags.Signer, arg |-> flags.Arg,
                                   argsJSON |-> flags.ArgsJSON]
    /\ UNCHANGED legacyArgs
    /\ UNCHANGED notLegacy

LegacyNext == LegacyRun

(***************************************************************************)
(* Specifications                                                          *)
(***************************************************************************)
SpecRemote == RemoteInit /\ [][RemoteNext]_vars

SpecEmbedded == EmbeddedInit /\ [][EmbeddedNext]_vars

SpecRoles == RolesInit /\ [][RolesNext]_vars

SpecSign == SignInit /\ [][SignNext]_vars

SpecEvents == EventsInit /\ [][EventsNext]_vars

SpecState == StateInit /\ [][StateNext]_vars

SpecContracts == ContractsInit /\ [][ContractsNext]_vars

\* The gateway keeps running: a sleep ends and an attempt is made.  The network
\* owes nothing.
SpecPoll ==
    /\ PollInit
    /\ [][PollNext]_vars
    /\ WF_vars(PollAttempt)
    /\ WF_vars(PollSleep)

SpecLegacy == LegacyInit /\ [][LegacyNext]_vars

(***************************************************************************)
(* Properties                                                              *)
(***************************************************************************)
Issued(step) == \E i \in 1 .. Len(rpcLog) : rpcLog[i] = step
\* step a comes before step b in the log of this transaction
Before(a, b) == \A j \in 1 .. Len(rpcLog) :
                   rpcLog[j] = b => \E i \in 1 .. (j - 1) : rpcLog[i] = a

\* C1: in SendTransaction the submit RPC is issued only after the proposer
\* account fetch, the sealed-block fetch and the signing have succeeded, in
\* that order; when one of the three fails (or the key lookup panics) the call
\* ends with that error and the log of the transaction holds no submit RPC.
C1_SubmitOnlyAfterPrepareAndSign ==
    /\ Issued("SendTransaction") =>
          /\ tx.signed
          /\ tx.referenceBlockID # "unset"
          /\ tx.proposalKey # NoKey
          /\ Before("GetAccount", "GetLatestBlockHeader")
          /\ Before("GetLatestBlockHeader", "Sign")
          /\ Before("Sign", "SendTransaction")
    /\ (/\ ret.call = "SendTransaction"
        /\ ret.kind \in {"error", "panic"}
        /\ ret.stage \in {"GetAccount", "GetLatestBlockHeader", "Sign"}) =>
          /\ pc = "returned"
          /\ ~Issued("SendTransaction")

\* C1 witness: signing failed after a successful preparation; the call has
\* returned the error.
C1_Witness ==
    /\ pc = "returned"
    /\ ret = ErrRet("SendTransaction", "Sign")
    /\ tx.referenceBlockID # "unset"

\* The remote half of C2: a result the gRPC gateway returns under waitSeal is
\* Sealed.
C2_Remote ==
    (ret.call = "GetTransactionResult" /\ ret.kind = "ok" /\ waitSeal)
        => ret.status = "Sealed"

\* The embedded half of C2.
C2_Embedded ==
    (embRet.call = "GetTransactionResult" /\ embRet.kind = "ok" /\ embRet.waitSeal)
        => embRet.status = "Sealed"

\* C2: on either gateway, a GetTransactionResult call made with waitSeal = true
\* that returns a result without an error returns a Sealed result.
C2_WaitSealReturnsSealed == C2_Remote /\ C2_Embedded

\* C3: once the caller has cancelled between two polling attempts, no further
\* result RPC is issued, and the call returns a cancellation error, not a
\* result.
C3_NoPollAfterCancel ==
    /\ [][callerCancelled =>
            ~(Len(rpcLog') > Len(rpcLog)
              /\ rpcLog'[Len(rpcLog')] = "GetTransactionResult")]_vars
    /\ []((callerCancelled /\ pc = "returned")
            => ret = ErrRet("GetTransactionResult", "cancelled"))

\* C4: after a successful LoadSnapshot(n) the live engine state is the state
\* it had when CreateSnapshot(n) was last called.
C4_LoadRestoresCapturedState ==
    (embRet.call = "LoadSnapshot" /\ embRet.kind = "ok")
        => LiveState = capturedAt[embRet.arg]

\* C5: a LoadSnapshot of a name that is not in the snapshot store returns an
\* error and changes neither the emulator objects, nor the emulator the
\* backend runs on, nor the store.
C5_LoadMissingFails ==
    [][(embRet'.call = "LoadSnapshot" /\ embRet'.arg \notin DOMAIN snapshots)
          => /\ embRet'.kind = "error"
             /\ heap' = heap
             /\ backendEmu' = backendEmu
             /\ snapshots' = snapshots]_vars

\* C5 witness: a load of a missing name has failed on a gateway that holds
\* another snapshot and a non-empty ledger.
C5_Witness ==
    /\ embRet.call = "LoadSnapshot"
    /\ embRet.kind = "error"
    /\ embRet.arg \notin DOMAIN snapshots
    /\ DOMAIN snapshots # {}
    /\ Len(LiveState) > 0

\* The account a role input names: none for the empty name.
Named(name) == IF name = "" THEN Nil ELSE name
NamedAll(names) == [i \in 1 .. Len(names) |-> Named(names[i])]

\* C6: signer given together with a proposer, payer or authorizer input makes
\* send fail with the role-conflict error, whatever the other names are, and
\* nothing is sent.
C6_SignerConflictRejected ==
    (/\ sendOut.called
     /\ sendFlags.Signer # ""
     /\ (sendFlags.Proposer # "" \/ sendFlags.Payer # "" \/ sendFlags.Autorizer # << >>))
        => /\ sendOut.roles.err = "RoleConflict"
           /\ ~sendOut.sent

\* C7: signer naming a configured account A, with no proposer, payer or
\* authorizer input, resolves to proposer = A, payer = A, authorizers = [A].
C7_SignerTakesAllRoles ==
    (/\ sendOut.called
     /\ sendFlags.Signer \in ConfigAccounts
     /\ sendFlags.Proposer = ""
     /\ sendFlags.Payer = ""
     /\ sendFlags.Autorizer = << >>)
        => sendOut.roles = Resolved(sendFlags.Signer, sendFlags.Signer, <<sendFlags.Signer>>)

\* C8: without signer, the resolved roles are the accounts named by the
\* proposer, payer and authorizer inputs of this send call, authorizers in
\* input order with repeats.
C8_RolesFromOwnInputs ==
    (/\ sendOut.called
     /\ sendFlags.Signer = ""
     /\ sendOut.roles.err = "none")
        => /\ sendOut.roles.proposer = Named(sendFlags.Proposer)
           /\ sendOut.roles.payer = Named(sendFlags.Payer)
           /\ sendOut.roles.authorizers = NamedAll(sendFlags.Autorizer)

\* The (role, name) inputs of this send call.
RoleInputs ==
    {<<"signer", sendFlags.Signer>>, <<"proposer", sendFlags.Proposer>>,
     <<"payer", sendFlags.Payer>>}
    \cup { <<"authorizer", sendFlags.Autorizer[i]>> : i \in 1 .. Len(sendFlags.Autorizer) }
Unresolved(name) == name # "" /\ name \notin ConfigAccounts

\* C9: a role name that matches no configured account makes send fail with an
\* account-not-found error naming a role and its unresolved name, and nothing
\* is sent.
C9_UnknownNameRejected ==
    (sendOut.called /\ \E ri \in RoleInputs : Unresolved(ri[2]))
        => /\ sendOut.roles.err = "AccountNotFound"
           /\ <<sendOut.roles.role, sendOut.roles.name>> \in RoleInputs
           /\ Unresolved(sendOut.roles.name)
           /\ ~sendOut.sent

\* The index of the proposer's own signing key: the explicit proposer's, or
\* the signer's when the signer proposes.
OwnKeyIndex(t) == IF t.proposer = NilAccount THEN t.signer.keyIndex ELSE t.proposer.keyIndex

\* C10: after a successful PrepareTransactionPayload the proposal key is the
\* proposer's address with the index and sequence number of the proposer's own
\* signing key in the fetched account record.
C10_ProposalKeyIsProposersOwn ==
    tx.referenceBlockID # "unset"
        => /\ OwnKeyIndex(tx) < Len(fetched)
           /\ tx.proposalKey =
                 [address |-> IF tx.proposer = NilAccount THEN tx.signer.address
                                                          ELSE tx.proposer.address,
                  index |-> fetched[OwnKeyIndex(tx) + 1].Index,
                  seq |-> fetched[OwnKeyIndex(tx) + 1].SequenceNumber]

\* C11: PrepareTransactionPayload applies the default gas limit only when the
\* gas limit is not set: a gas limit set before the preparation is the same
\* after it.
C11_PresetGasLimitKept ==
    [][(pc = "GetLatestBlockHeader" /\ pc' = "Sign" /\ tx.gasLimit # 0)
          => tx'.gasLimit = tx.gasLimit]_vars

Count(step) == Len(SelectSeq(rpcLog, LAMBDA s : s = step))

\* C13: in one send-then-wait flow the proposer account fetch, the sealed-block
\* fetch, the signing and the submit RPC each run at most once, however often
\* the result poll repeats and whichever step fails.
C13_OnlyResultFetchRepeats ==
    \A step \in {"GetAccount", "GetLatestBlockHeader", "Sign", "SendTransaction"} :
        Count(step) <= 1

\* C13 witness: the result poll has run more than once and the call returned.
C13_Witness ==
    /\ pc = "returned"
    /\ Count("GetTransactionResult") >= 2
    /\ Count("SendTransaction") = 1

\* C19: a successful PrepareTransactionPayload leaves the reference block ID
\* equal to the sealed header ID that same call fetched; a failing account
\* fetch or sealed-header fetch returns the error with the reference block ID,
\* the gas limit and the proposal key as they were.
C19_ReferenceBlockIsFetchedSealed ==
    [][/\ (pc = "GetLatestBlockHeader" /\ pc' = "Sign")
            => (tx'.referenceBlockID = sealed' /\ sealed' \in BlockIDs)
       /\ (pc \in {"GetAccount", "GetLatestBlockHeader"} /\ ret'.kind = "error")
            => /\ tx'.referenceBlockID = tx.referenceBlockID
               /\ tx'.gasLimit = tx.gasLimit
               /\ tx'.proposalKey = tx.proposalKey
               /\ tx'.referenceBlockID = "unset"]_vars

\* C19 witness: the payload was prepared from a fetched sealed header.
C19_Witness ==
    /\ pc = "Sign"
    /\ sealed \in BlockIDs
    /\ tx.referenceBlockID = sealed

\* The attempt just made is allowed to be the last one of the call.
ResultCallStopsRight ==
    /\ pc = "Sleep" => (waitSeal /\ observed \notin {"Sealed", "error"})
    /\ (pc = "returned" /\ ret.call = "GetTransactionResult")
          => /\ ~waitSeal => Polls = 1
             /\ waitSeal => observed \in {"Sealed", "error"}
             /\ ret.kind = "error" <=> observed = "error"
             /\ ret.kind = "ok" => ret.status = observed

\* C20: every attempt of the remote GetTransactionResult issues exactly one
\* result RPC; without waitSeal the call is one RPC and returns the status it
\* saw; with waitSeal the call goes on only after an attempt that saw neither
\* Sealed nor an error, and issues no RPC once it has returned.
C20_OneRpcPerAttemptThenStop ==
    [][/\ ResultCallStopsRight'
       /\ (pc = "GetTransactionResult" /\ pc' # pc)
            => rpcLog' = Append(rpcLog, "GetTransactionResult")
       /\ pc \in {"Sleep", "returned"} => rpcLog' = rpcLog]_vars

\* C20 witness: a waiting call returned Sealed on a later attempt.
C20_Witness ==
    /\ pc = "returned"
    /\ waitSeal
    /\ observed = "Sealed"
    /\ ret = OkRet("GetTransactionResult", "Sealed")
    /\ Polls >= 2

Flat(err) == err = <<"message">>

\* C15: every error either gateway returns is a flat message error: it neither
\* is nor wraps the error the backend produced.
C15_ErrorsAreFlat ==
    /\ ret.kind = "error" => Flat(RemoteError(ret.stage))
    /\ embRet.kind = "error" => Flat(EmbeddedError)

\* C12: in every envelope the signing pipeline produces, the keys of
\* payloadSignatures are exactly the proposer and the authorizers, each
\* (address, key index) once, and the keys of envelopeSignatures are exactly
\* the payer.
C12_SignatureKeysMatchRoles ==
    signPc = "complete" =>
        /\ Range(payloadSignatures) =
              {SigKey(signRoles.proposer)}
                \cup { SigKey(signRoles.authorizers[i]) : i \in 1 .. Len(signRoles.authorizers) }
        /\ Cardinality(Range(payloadSignatures)) = Len(payloadSignatures)
        /\ Range(envelopeSignatures) = {SigKey(signRoles.payer)}
        /\ Len(envelopeSignatures) = 1

\* C12 witness: a complete envelope whose proposer is not an authorizer and
\* whose two authorizers are one account.
C12_Witness ==
    /\ signPc = "complete"
    /\ Len(signRoles.authorizers) = 2
    /\ signRoles.authorizers[1] = signRoles.authorizers[2]
    /\ signRoles.proposer # signRoles.authorizers[1]
    /\ Len(payloadSignatures) = 2

\* The heights the call asked for.
Requested == { h \in Heights : evArgs.start <= h /\ h <= evArgs.end }

\* C14: the embedded GetEvents(type, start, end) with start <= end returns
\* exactly end - start + 1 entries, the i-th carrying height start + i counted
\* from 0, and the entry of a block without matching events carries an empty
\* event list, never a nil one.
C14_OneEntryPerHeight ==
    (evRet \notin {"none", "running"} /\ evArgs.start <= evArgs.end) =>
        /\ evRet = "ok"
        /\ Len(evEvents) = evArgs.end - evArgs.start + 1
        /\ \A i \in 1 .. Len(evEvents) :
              /\ evEvents[i].Height = evArgs.start + (i - 1)
              /\ evChain[evEvents[i].Height + 1].matching = << >>
                    => evEvents[i].Events = Slice(<< >>)

\* The backend fails on a requested height: the block is missing, or the
\* events of the block cannot be fetched.
BackendFails(h) == h >= Len(evChain) \/ evChain[h + 1].eventsFail

\* C16: when the backend fails to return the block or the events of a height
\* in the requested range, GetEvents returns an error.
C16_BackendFailureIsReturned ==
    (evRet \notin {"none", "running"} /\ \E h \in Requested : BackendFails(h))
        => evRet = "error"

\* C17: through any sequence of AddOrUpdateAccount and RemoveAccount no two
\* accounts of the state share a name, and right after AddOrUpdateAccount(a)
\* AccountByName(a.name) is a itself.
C17_NamesUniqueAndUpdateWhole ==
    /\ \A i, j \in 1 .. Len(stAccounts) :
          stAccounts[i].name = stAccounts[j].name => i = j
    /\ stLast.op = "AddOrUpdateAccount" =>
          AccountByName(stAccounts, stLast.name)
            = [name |-> stLast.name, address |-> stLast.address]

\* C17 witness: an account that is not the last one was updated to another
\* address while three accounts are configured.
C17_Witness ==
    /\ stLast.op = "AddOrUpdateAccount"
    /\ Len(stAccounts) = 3
    /\ stAccounts[1] = [name |-> stLast.name, address |-> stLast.address]
    /\ stAccounts[1].name = "alice"

\* The same contract is listed by the deployments of two accounts.
DeployedToTwoAccounts ==
    \E i, j \in 1 .. Len(ccDeployments) :
        /\ ccDeployments[i].Account # ccDeployments[j].Account
        /\ Range(ccDeployments[i].Contracts) \cap Range(ccDeployments[j].Contracts) # {}

\* C18: ContractConflictExists(network) is true exactly when the same contract
\* is configured to deploy to more than one account in that network.
C18_ConflictIffTwoAccounts ==
    ccResult.done => (ccResult.value <=> DeployedToTwoAccounts)

\* C21: a remote GetTransactionResult(waitSeal = true) whose transaction reports
\* Sealed or Expired eventually returns.
C21_FinalStatusEndsTheWait ==
    (pollWaitSeal /\ pollPc # "idle" /\ pollSeen \cap FinalStatuses # {})
        ~> (pollPc = "returned")

\* C22: ListSnapshots returns the names passed to CreateSnapshot so far, each
\* once; CreateSnapshot of a name already in the store succeeds and leaves one
\* entry of that name; LoadSnapshot leaves the store as it is.
C22_ListIsCreatedNames ==
    [][/\ embRet'.call = "ListSnapshots"
            => /\ Range(listed') = DOMAIN timesCreated'
               /\ Len(listed') = Cardinality(DOMAIN timesCreated')
       /\ embRet'.call = "CreateSnapshot"
            => /\ embRet'.kind = "ok"
               /\ DOMAIN snapshots' = DOMAIN snapshots \cup {embRet'.arg}
       /\ embRet'.call = "LoadSnapshot" => snapshots' = snapshots]_vars

\* C22 witness: both names are listed after one of them was created twice and
\* a snapshot was loaded.
C22_Witness ==
    /\ embRet.call = "ListSnapshots"
    /\ Len(listed) = 2
    /\ timesCreated["a"] = 2
    /\ timesCreated["b"] = 1
    /\ Len(LiveState) > 0

\* C23: RemoveAccount(name) on a state holding an account of that name removes
\* that account only, keeps the others in their order and leaves
\* AccountByName(name) nil; on a state without it, it returns an error and
\* leaves the accounts as they are.
C23_RemoveExactlyNamed ==
    [][stLast'.op = "RemoveAccount" =>
          LET name == stLast'.name
          IN IF AccountByName(stAccounts, name) # NoAccount
             THEN /\ stLast'.err = "nil"
                  /\ stAccounts' = SelectSeq(stAccounts, LAMBDA a : a.name # name)
                  /\ Len(stAccounts') = Len(stAccounts) - 1
                  /\ AccountByName(stAccounts', name) = NoAccount
             ELSE /\ stLast'.err = "does not exist"
                  /\ stAccounts' = stAccounts]_vars

\* C23 witness: the first of three accounts was removed and the two behind it
\* are left.
C23_Witness ==
    /\ stLast.op = "RemoveAccount"
    /\ stLast.err = "nil"
    /\ stLast.name = "emulator-account"
    /\ Len(stAccounts) = 2
    /\ stAccounts[1].name = "alice"
    /\ stAccounts[2].name = "bob"

\* C24: GetEvents ends for every startHeight and endHeight of the height type,
\* the largest height included: a running call has made one round per height
\* from startHeight up to its counter, which has not wrapped, so it makes at
\* most endHeight - startHeight + 1 rounds before it ends; for
\* startHeight > endHeight it ends without a round, returning the empty
\* sequence with nothing asked of the backend.
C24_LoopEndsWithinRange ==
    /\ (evRet = "running" /\ evArgs.start <= evArgs.end)
          => /\ evHeight = evArgs.start + Len(evEvents)
             /\ Len(evEvents) <= evArgs.end - evArgs.start + 1
    /\ (evRet \in {"ok", "panic"} /\ evArgs.start <= evArgs.end)
          => Len(evEvents) <= evArgs.end - evArgs.start + 1
    /\ (evArgs.start > evArgs.end /\ evRet # "running")
          => (evRet = "ok" /\ evEvents = << >>)

\* A call whose endHeight is the largest height has ended after one round for
\* every block of the chain.
C24_Witness ==
    /\ evArgs.end = 2 ^ HeightBits - 1
    /\ evArgs.start = 0
    /\ evRet \in {"ok", "panic"}
    /\ Len(evEvents) = Len(evChain)
    /\ Len(evChain) > 1

\* C25: the legacy send command takes the file name from the positional
\* argument when one is given, else from a non-empty --code, and with neither
\* returns an error without calling Transactions.Send; it passes --args as
\* args-json only when --arg and --args-json are both empty.
C25_LegacyFilenameAndArgs ==
    [][(~legacyOut.called /\ legacyOut'.called) =>
          /\ IF Len(legacyArgs) = 1
             THEN legacyOut'.sendCalled /\ legacyOut'.filename = legacyArgs[1]
             ELSE IF legacyFlags.Code # ""
             THEN legacyOut'.sendCalled /\ legacyOut'.filename = legacyFlags.Code
             ELSE ~legacyOut'.sendCalled /\ legacyOut'.err = "filename"
          /\ legacyOut'.sendCalled =>
                /\ legacyOut'.arg = legacyFlags.Arg
                /\ legacyOut'.argsJSON =
                      IF legacyFlags.Arg = << >> /\ legacyFlags.ArgsJSON = ""
                      THEN legacyFlags.Args
                      ELSE legacyFlags.ArgsJSON]_vars

\* C25 witness: a positional argument won over --code, and --args was passed
\* on as args-json.
C25_Witness ==
    /\ legacyOut.sendCalled
    /\ legacyArgs = <<"tx.cdc">>
    /\ legacyFlags.Code = "code.cdc"
    /\ legacyOut.filename = "tx.cdc"
    /\ legacyFlags.Args = "[old]"
    /\ legacyOut.argsJSON = "[old]"

====
